---- MODULE Spec2Model ----
(***************************************************************************)
(* State-machine model of subtitle_generator.py: the three command-line    *)
(* operations of main() (generate, add, translate), each as the sequence   *)
(* of steps its run()/translate_srt() method performs.                     *)
(*                                                                         *)
(* Times are integers in microseconds (the resolution of datetime's        *)
(* timedelta).  The calls into the srt, textwrap and moviepy packages are  *)
(* modelled by what those functions do with the default arguments the      *)
(* source passes: srt.compose(subs) is compose(subs, reindex=True,         *)
(* start_index=1, strict=True).                                            *)
(***************************************************************************)
EXTENDS Integers, Sequences, FiniteSets, TLC

VARIABLES
    action,                 \* args.action
    pc,                     \* the next step of the running operation
    exc,                    \* the exception propagating out of the operation
    temp_files,             \* SubtitleProcessor.temp_files
    temp_audio_exists,      \* Config.TEMP_AUDIO_FILE exists on disk
    transcription,          \* transcription['segments']
    chunks,                 \* result of split_into_chunks
    results,                \* result of process_chunks
    input_srt,              \* the subtitle file read by add / translate
    output,                 \* the output file of the operation
    subtitles,              \* the parsed subtitles (translate_srt, load_srt)
    translated_subtitles,   \* translate_srt's accumulator
    calls,                  \* contents passed to translate_text, in order
    video,                  \* VideoFileClip(self.video_path): w, h, duration
    max_lines,              \* Config.MAX_SUBTITLE_LINES
    final_video             \* the CompositeVideoClip built by add

vars == <<action, pc, exc, temp_files, temp_audio_exists, transcription,
          chunks, results, input_srt, output, subtitles,
          translated_subtitles, calls, video, max_lines, final_video>>

----------------------------------------------------------------------------
(* Bounds of the model *)

MaxSegments == 3
MaxSubs == 2
MaxLinesCfg == 2

(* Program constants *)

MAX_TOKENS_PER_CHUNK == 4000
DEFAULT_FONT_SIZE == 32
DEFAULT_SUBTITLE_HEIGHT == 200

TEMP_AUDIO_FILE == "temp_audio.wav"

SeqsUpTo(S, n) == UNION {[1..k -> S] : k \in 0..n}

----------------------------------------------------------------------------
(* Transcript segments and the chunker (SRTGenerator.split_into_chunks) *)

\* Segment texts of the model.  "long" and "huge" stand for texts that the
\* tokenizer encodes to 3000 and 4001 tokens; "" is the text Whisper gives
\* a segment it has cleared.
SegTexts == {"", "Hi", "long", "huge"}

\* <<start, end>> of a segment, in microseconds: an ordinary segment, a
\* segment with sub-millisecond digits that runs past one minute, and an
\* instantaneous segment.
SegTimes == {<<0, 1500000>>, <<1999600, 61002999>>, <<1500000, 1500000>>}

Segments == {[text |-> x, start |-> t[1], end |-> t[2]] : x \in SegTexts, t \in SegTimes}

\* len(self.tokenizer.encode(text))
encode_len(text) ==
    CASE text = ""     -> 0
      [] text = "Hi"   -> 1
      [] text = "long" -> 3000
      [] text = "huge" -> 4001

\* {"text": "", "segments": []}; the text is kept as the list of the
\* pieces that += joins, each piece being segment['text'] + " ".
EmptyChunk == [text |-> <<>>, segments |-> <<>>]

seal_needed_ignoring_running(current_tokens, n) == n > MAX_TOKENS_PER_CHUNK

\* if current_tokens + len(segment_tokens) > Config.MAX_TOKENS_PER_CHUNK
seal_needed(current_tokens, n) == current_tokens + n > MAX_TOKENS_PER_CHUNK

\* The for loop of split_into_chunks, from segment i on.
RECURSIVE chunk_loop(_, _, _, _, _)
chunk_loop(segs, i, done, current_chunk, current_tokens) ==
    IF i > Len(segs)
    THEN [chunks |-> done, current_chunk |-> current_chunk]
    ELSE LET segment == segs[i]
             n == encode_len(segment.text)
             seal == seal_needed(current_tokens, n)
             done1 == IF seal THEN Append(done, current_chunk) ELSE done
             cc == IF seal THEN EmptyChunk ELSE current_chunk
             ct == IF seal THEN 0 ELSE current_tokens
         IN chunk_loop(segs, i + 1, done1,
                       [text |-> Append(cc.text, segment.text),
                        segments |-> Append(cc.segments, segment)],
                       ct + n)

split_without_final(segs) == chunk_loop(segs, 1, <<>>, EmptyChunk, 0).chunks

split_into_chunks(segs) ==
    LET r == chunk_loop(segs, 1, <<>>, EmptyChunk, 0)
    IN IF r.current_chunk.segments # <<>>
       THEN Append(r.chunks, r.current_chunk)
       ELSE r.chunks

\* process_chunks: results.extend(chunk['segments']) for each chunk
RECURSIVE process_chunks(_)
process_chunks(cs) ==
    IF cs = <<>> THEN <<>> ELSE cs[1].segments \o process_chunks(Tail(cs))

----------------------------------------------------------------------------
(* Subtitles and the codec: srt.Subtitle, srt.compose, srt.parse *)

\* srt.Subtitle(index=, start=, end=, content=)
Subtitle(i, s, e, c) == [index |-> i, start |-> s, end |-> e, content |-> c]

\* not content.strip(), for the contents of the model
is_blank(content) == content = ""

\* srt.timedelta_to_srt_timestamp with the milliseconds rounded to nearest
timedelta_to_srt_timestamp_rounding(td) ==
    LET seconds == td \div 1000000
        microseconds == td % 1000000
    IN <<seconds \div 3600, (seconds % 3600) \div 60, (seconds % 3600) % 60,
         (microseconds + 500) \div 1000>>

\* srt.timedelta_to_srt_timestamp: the fields of "HH:MM:SS,mmm".
\*   hrs, secs_remainder = divmod(td.seconds, 3600)  (+ td.days * 24)
\*   mins, secs = divmod(secs_remainder, 60)
\*   msecs = td.microseconds // 1000
timedelta_to_srt_timestamp(td) ==
    LET seconds == td \div 1000000
        microseconds == td % 1000000
    IN <<seconds \div 3600, (seconds % 3600) \div 60, (seconds % 3600) % 60,
         microseconds \div 1000>>

\* srt.srt_timestamp_to_timedelta: timedelta(hours=, minutes=, seconds=,
\* milliseconds=) of the four fields
srt_timestamp_to_timedelta(ts) ==
    ((ts[1] * 60 + ts[2]) * 60 + ts[3]) * 1000000 + ts[4] * 1000

\* Subtitle.__lt__: (start, end, index) compared lexicographically
sub_lt(a, b) ==
    \/ a.start < b.start
    \/ a.start = b.start /\ a.end < b.end
    \/ a.start = b.start /\ a.end = b.end /\ a.index < b.index

\* sorted(subtitles): stable, so an element goes after its equals
RECURSIVE insert_sorted(_, _)
insert_sorted(s, x) ==
    IF s = <<>> THEN <<x>>
    ELSE IF sub_lt(x, s[1]) THEN <<x>> \o s
    ELSE <<s[1]>> \o insert_sorted(Tail(s), x)

RECURSIVE sorted(_)
sorted(s) ==
    IF s = <<>> THEN <<>>
    ELSE insert_sorted(sorted(SubSeq(s, 1, Len(s) - 1)), s[Len(s)])

\* srt._should_skip_sub: no content, start < 0, or start >= end
should_skip_sub(sub) ==
    \/ is_blank(sub.content)
    \/ sub.start < 0
    \/ sub.start >= sub.end

sort_and_reindex_keeping_numbers(subs) ==
    LET ordered == sorted(subs)
        numbered == [k \in 1..Len(ordered) |-> [ordered[k] EXCEPT !.index = k]]
    IN SelectSeq(numbered, LAMBDA sub : ~should_skip_sub(sub))

\* srt.sort_and_reindex(subtitles, start_index=1, skip=True):
\* index = sub_num - skipped_subs over the sorted, unskipped subtitles
sort_and_reindex(subs) ==
    LET kept == SelectSeq(sorted(subs), LAMBDA sub : ~should_skip_sub(sub))
    IN [k \in 1..Len(kept) |-> [kept[k] EXCEPT !.index = k]]

\* Subtitle.to_srt(strict=True): one block of the file.  The contents of
\* the model hold no line break, which make_legal_content leaves as it is.
to_srt(sub) ==
    [index |-> sub.index,
     start |-> timedelta_to_srt_timestamp(sub.start),
     end |-> timedelta_to_srt_timestamp(sub.end),
     content |-> sub.content]

\* srt.compose(subtitles): the blocks of the file text, in order
compose(subs) ==
    LET out == sort_and_reindex(subs)
    IN [k \in 1..Len(out) |-> to_srt(out[k])]

\* list(srt.parse(text)) of a well-formed file text
parse(blocks) ==
    [k \in 1..Len(blocks) |->
        Subtitle(blocks[k].index,
                 srt_timestamp_to_timedelta(blocks[k].start),
                 srt_timestamp_to_timedelta(blocks[k].end),
                 blocks[k].content)]

\* create_srt's loop: enumerate(results, start=1)
create_srt_subs(res) ==
    [i \in 1..Len(res) |-> Subtitle(i, res[i].start, res[i].end, res[i].text)]

----------------------------------------------------------------------------
(* Text layout: SubtitleAdder.create_subtitle_clip *)

\* A chunk of text as textwrap splits it: len characters of the word w
\* from offset off on; the white space between two words is the word " ".
Chunk(w, off, len) == [w |-> w, off |-> off, len |-> len]

\* The words and the white space of the contents of the model.
text_chunks(txt) ==
    CASE txt = ""   -> <<>>
      [] txt = "Hi" -> <<Chunk("Hi", 0, 2)>>
      [] txt = "aaaaaaaaaa bbbbbbbbbb" ->
             <<Chunk("aaaaaaaaaa", 0, 10), Chunk(" ", 0, 1), Chunk("bbbbbbbbbb", 0, 10)>>

\* chunk.strip() == ''
is_space(c) == c.w = " " \/ c.len = 0

\* while chunks: if cur_len + len(chunks[-1]) <= width: take it, else break
RECURSIVE take_fitting(_, _, _, _)
take_fitting(cs, width, cur_line, cur_len) ==
    IF cs # <<>> /\ cur_len + cs[1].len <= width
    THEN take_fitting(Tail(cs), width, Append(cur_line, cs[1]), cur_len + cs[1].len)
    ELSE [cur_line |-> cur_line, cur_len |-> cur_len, rest |-> cs]

\* TextWrapper._handle_long_word with break_long_words: the part of the
\* word that fits goes on the line, the remainder stays in the chunks.
handle_long_word(f, width) ==
    LET space_left == IF width < 1 THEN 1 ELSE width - f.cur_len
        chunk == f.rest[1]
    IN [cur_line |-> Append(f.cur_line, [chunk EXCEPT !.len = space_left]),
        rest |-> <<[chunk EXCEPT !.off = @ + space_left, !.len = @ - space_left]>>
                 \o Tail(f.rest)]

\* TextWrapper._wrap_chunks for width > 0, with the lines made so far
RECURSIVE wrap_chunks(_, _, _)
wrap_chunks(cs, width, lines) ==
    IF cs = <<>> THEN lines
    ELSE LET c0 == IF is_space(cs[1]) /\ lines # <<>> THEN Tail(cs) ELSE cs
             f == take_fitting(c0, width, <<>>, 0)
             g == IF f.rest # <<>> /\ f.rest[1].len > width
                  THEN handle_long_word(f, width)
                  ELSE [cur_line |-> f.cur_line, rest |-> f.rest]
             n == Len(g.cur_line)
             cur == IF n > 0 /\ is_space(g.cur_line[n])
                    THEN SubSeq(g.cur_line, 1, n - 1)
                    ELSE g.cur_line
         IN wrap_chunks(g.rest, width, IF cur # <<>> THEN Append(lines, cur) ELSE lines)

\* textwrap.fill(txt, width).split('\n'): the wrapped lines; the empty
\* string splits into one empty line.
wrapped_lines(txt, width) ==
    LET w == wrap_chunks(text_chunks(txt), width, <<>>)
    IN IF w = <<>> THEN << <<>> >> ELSE w

\* s[:m]
slice_to(s, m) ==
    IF m >= 0
    THEN SubSeq(s, 1, IF m < Len(s) THEN m ELSE Len(s))
    ELSE SubSeq(s, 1, Len(s) + m)

\* max_char_count = int(video_width / (font_size * 0.6))
max_char_count(video_width, font_size) == (5 * video_width) \div (3 * font_size)

\* create_subtitle_clip: the lines drawn on the image, or the ValueError
\* of textwrap (width <= 0) or of max() over no line.
create_subtitle_clip(txt, video_width, font_size, maxl) ==
    LET width == max_char_count(video_width, font_size)
        lines == slice_to(wrapped_lines(txt, width), maxl)
    IN IF width <= 0 \/ lines = <<>>
       THEN [raised |-> TRUE, lines |-> <<>>]
       ELSE [raised |-> FALSE, lines |-> lines]

----------------------------------------------------------------------------
(* Timeline: the clips of moviepy's CompositeVideoClip *)

\* clip.set_start(sub.start.total_seconds()).set_end(sub.end.total_seconds())
\*     .set_position((0, original_height))
subtitle_clip(sub, img, original_height) ==
    [lines |-> img.lines, start |-> sub.start, end |-> sub.end,
     pos |-> <<0, original_height>>]

is_playing_closed(clip, t) == clip.start <= t /\ t <= clip.end

\* Clip.is_playing(t) of a clip whose end is set
is_playing(clip, t) == clip.start <= t /\ t < clip.end

\* CompositeVideoClip.playing_clips(t), as positions in the subtitle clips
playing_clips(composite, t) ==
    {i \in 1..Len(composite.clips) : is_playing(composite.clips[i], t)}

----------------------------------------------------------------------------
(* Files and inputs *)

\* "HH:MM:SS,mmm --> HH:MM:SS,mmm" lines of the input files of the model
FileTimes == {<< <<0, 0, 0, 0>>, <<0, 0, 1, 500>> >>,
              << <<0, 0, 1, 500>>, <<0, 1, 1, 1>> >>}

FileContents == {"", "Hi", "aaaaaaaaaa bbbbbbbbbb"}

Blocks == {[index |-> i, start |-> t[1], end |-> t[2], content |-> c] :
              i \in {1, 2}, t \in FileTimes, c \in FileContents}

\* A subtitle file: text that srt.parse accepts (its blocks), or text on
\* which it raises SRTParseError.
InputFiles == {[ok |-> FALSE, blocks |-> <<>>]}
              \cup {[ok |-> TRUE, blocks |-> b] : b \in SeqsUpTo(Blocks, MaxSubs)}

NoFile == [ok |-> TRUE, blocks |-> <<>>]

\* The output path before the operation: no file, or a file of an earlier run.
OutputBefore == {[state |-> "absent", blocks |-> <<>>],
                 [state |-> "stale", blocks |-> <<>>]}

Written(blocks) == [state |-> "written", blocks |-> blocks]

\* video.w, video.h, video.duration
Videos == {[w |-> w, h |-> 120, duration |-> 2000000] : w \in {10, 64, 200}}

NoComposite == [clips |-> <<>>, size |-> <<0, 0>>, duration |-> 0]

\* What translate_text returns (the reply, stripped): a translation or
\* the empty string.
Translations == {"Hola", ""}

----------------------------------------------------------------------------
(* main(): the state after argument parsing and construction *)

FirstStep(a) ==
    CASE a = "generate"  -> "extract_audio"
      [] a = "add"       -> "load_srt"
      [] a = "translate" -> "parse"

Init ==
    /\ action \in {"generate", "add", "translate"}
    /\ pc = FirstStep(action)
    /\ exc = "none"
    /\ temp_files = <<>>
    /\ temp_audio_exists = FALSE
    /\ transcription = <<>>
    /\ chunks = <<>>
    /\ results = <<>>
    /\ input_srt \in (IF action = "generate" THEN {NoFile} ELSE InputFiles)
    /\ output \in OutputBefore
    /\ subtitles = <<>>
    /\ translated_subtitles = <<>>
    /\ calls = <<>>
    /\ video \in (IF action = "add" THEN Videos ELSE {CHOOSE v \in Videos : v.w = 200})
    /\ max_lines \in (IF action = "add" THEN 0..MaxLinesCfg ELSE {MaxLinesCfg})
    /\ final_video = NoComposite

----------------------------------------------------------------------------
(* generate: SRTGenerator.run *)

\* extract_audio: VideoFileClip or write_audiofile may raise; the file is
\* on disk once write_audiofile has started writing it, and is appended to
\* temp_files only after write_audiofile has returned.
ExtractAudio ==
    /\ pc = "extract_audio"
    /\ \/ /\ exc' = "IOError"
          /\ pc' = "cleanup"
          /\ UNCHANGED <<temp_files, temp_audio_exists>>
       \/ /\ temp_audio_exists' = TRUE
          /\ exc' = "IOError"
          /\ pc' = "cleanup"
          /\ UNCHANGED temp_files
       \/ /\ temp_audio_exists' = TRUE
          /\ temp_files' = Append(temp_files, TEMP_AUDIO_FILE)
          /\ pc' = "transcribe_audio"
          /\ UNCHANGED exc
    /\ UNCHANGED <<action, transcription, chunks, results, input_srt, output,
                   subtitles, translated_subtitles, calls, video, max_lines,
                   final_video>>

\* transcribe_audio: the model fails to load or to transcribe, or returns
\* its segments
TranscribeAudio ==
    /\ pc = "transcribe_audio"
    /\ \/ /\ exc' = "RuntimeError"
          /\ pc' = "cleanup"
          /\ UNCHANGED transcription
       \/ /\ transcription' \in SeqsUpTo(Segments, MaxSegments)
          /\ pc' = "split_into_chunks"
          /\ UNCHANGED exc
    /\ UNCHANGED <<action, temp_files, temp_audio_exists, chunks, results,
                   input_srt, output, subtitles, translated_subtitles, calls,
                   video, max_lines, final_video>>

SplitIntoChunks ==
    /\ pc = "split_into_chunks"
    /\ chunks' = split_into_chunks(transcription)
    /\ pc' = "process_chunks"
    /\ UNCHANGED <<action, exc, temp_files, temp_audio_exists, transcription,
                   results, input_srt, output, subtitles, translated_subtitles,
                   calls, video, max_lines, final_video>>

ProcessChunks ==
    /\ pc = "process_chunks"
    /\ results' = process_chunks(chunks)
    /\ pc' = "create_srt"
    /\ UNCHANGED <<action, exc, temp_files, temp_audio_exists, transcription,
                   chunks, input_srt, output, subtitles, translated_subtitles,
                   calls, video, max_lines, final_video>>

\* create_srt: open(self.srt_path, 'w') may fail; otherwise the file holds
\* srt.compose(subs)
CreateSrt ==
    /\ pc = "create_srt"
    /\ \/ /\ exc' = "IOError"
          /\ UNCHANGED output
       \/ /\ output' = Written(compose(create_srt_subs(results)))
          /\ UNCHANGED exc
    /\ pc' = "cleanup"
    /\ UNCHANGED <<action, temp_files, temp_audio_exists, transcription,
                   chunks, results, input_srt, subtitles, translated_subtitles,
                   calls, video, max_lines, final_video>>

\* cleanup_temp_files, the finally block of both run methods: every path
\* of temp_files that exists is removed; a failing os.remove is logged.
CleanupTempFiles ==
    /\ pc = "cleanup"
    /\ \E removed \in BOOLEAN :
          temp_audio_exists' =
              IF \E k \in 1..Len(temp_files) : temp_files[k] = TEMP_AUDIO_FILE
              THEN temp_audio_exists /\ ~removed
              ELSE temp_audio_exists
    /\ pc' = "done"
    /\ UNCHANGED <<action, exc, temp_files, transcription, chunks, results,
                   input_srt, output, subtitles, translated_subtitles, calls,
                   video, max_lines, final_video>>

----------------------------------------------------------------------------
(* add: SubtitleAdder.run *)

\* load_srt: list(srt.parse(f.read())) raises on a malformed file
LoadSrt ==
    /\ pc = "load_srt"
    /\ \/ /\ ~input_srt.ok
          /\ exc' = "SRTParseError"
          /\ pc' = "cleanup"
          /\ UNCHANGED subtitles
       \/ /\ input_srt.ok
          /\ subtitles' = parse(input_srt.blocks)
          /\ pc' = "add_subtitles_to_video"
          /\ UNCHANGED exc
    /\ UNCHANGED <<action, temp_files, temp_audio_exists, transcription,
                   chunks, results, input_srt, output, translated_subtitles,
                   calls, video, max_lines, final_video>>

\* The image of each subtitle, as add_subtitles_to_video's loop asks for it
subtitle_images(subs, video_width, maxl) ==
    [i \in 1..Len(subs) |->
        create_subtitle_clip(subs[i].content, video_width, DEFAULT_FONT_SIZE, maxl)]

\* CompositeVideoClip([background, video_clip] + subtitle_clips, size=...)
\*     .set_duration(video.duration)
composite_video(subs, images, v) ==
    [clips |-> [i \in 1..Len(subs) |-> subtitle_clip(subs[i], images[i], v.h)],
     size |-> <<v.w, v.h + DEFAULT_SUBTITLE_HEIGHT>>,
     duration |-> v.duration]

\* add_subtitles_to_video: a subtitle whose image cannot be made raises
\* out of the loop; otherwise the timeline is composed and write_videofile
\* writes the output video, or fails while writing it.
AddSubtitlesToVideo ==
    /\ pc = "add_subtitles_to_video"
    /\ LET images == subtitle_images(subtitles, video.w, max_lines)
       IN \/ /\ \E i \in 1..Len(images) : images[i].raised
             /\ exc' = "ValueError"
             /\ UNCHANGED <<final_video, output>>
          \/ /\ \A i \in 1..Len(images) : ~images[i].raised
             /\ final_video' = composite_video(subtitles, images, video)
             /\ \/ /\ output' = Written(<<>>)
                   /\ UNCHANGED exc
                \/ /\ output' = [state |-> "partial", blocks |-> <<>>]
                   /\ exc' = "IOError"
    /\ pc' = "cleanup"
    /\ UNCHANGED <<action, temp_files, temp_audio_exists, transcription,
                   chunks, results, input_srt, subtitles, translated_subtitles,
                   calls, video, max_lines>>

----------------------------------------------------------------------------
(* translate: SRTTranslator.translate_srt *)

\* subtitles = list(srt.parse(f.read()))
TranslateSrtParse ==
    /\ pc = "parse"
    /\ \/ /\ ~input_srt.ok
          /\ exc' = "SRTParseError"
          /\ pc' = "done"
          /\ UNCHANGED subtitles
       \/ /\ input_srt.ok
          /\ subtitles' = parse(input_srt.blocks)
          /\ pc' = "translate"
          /\ UNCHANGED exc
    /\ UNCHANGED <<action, temp_files, temp_audio_exists, transcription,
                   chunks, results, input_srt, output, translated_subtitles,
                   calls, video, max_lines, final_video>>

\* One pass of the for loop: translate_text is called with the content of
\* the next subtitle; the call raises, or its reply is appended with the
\* subtitle's index, start and end.
TranslateText ==
    /\ pc = "translate"
    /\ Len(translated_subtitles) < Len(subtitles)
    /\ LET subtitle == subtitles[Len(translated_subtitles) + 1]
       IN /\ calls' = Append(calls, subtitle.content)
          /\ \/ /\ exc' = "APIError"
                /\ pc' = "done"
                /\ UNCHANGED translated_subtitles
             \/ /\ \E translated_content \in Translations :
                      translated_subtitles' =
                          Append(translated_subtitles,
                                 Subtitle(subtitle.index, subtitle.start,
                                          subtitle.end, translated_content))
                /\ UNCHANGED <<exc, pc>>
    /\ UNCHANGED <<action, temp_files, temp_audio_exists, transcription,
                   chunks, results, input_srt, output, subtitles, video,
                   max_lines, final_video>>

loop_finished_early == Len(translated_subtitles) >= 1 \/ Len(subtitles) = 0

\* The for loop over subtitles has run to its end
loop_finished == Len(translated_subtitles) = Len(subtitles)

\* open(output_srt, 'w') may fail; otherwise the file holds
\* srt.compose(translated_subtitles)
TranslateSrtWrite ==
    /\ pc = "translate"
    /\ loop_finished
    /\ \/ /\ exc' = "IOError"
          /\ UNCHANGED output
       \/ /\ output' = Written(compose(translated_subtitles))
          /\ UNCHANGED exc
    /\ pc' = "done"
    /\ UNCHANGED <<action, temp_files, temp_audio_exists, transcription,
                   chunks, results, input_srt, subtitles, translated_subtitles,
                   calls, video, max_lines, final_video>>

----------------------------------------------------------------------------

Next ==
    \/ ExtractAudio
    \/ TranscribeAudio
    \/ SplitIntoChunks
    \/ ProcessChunks
    \/ CreateSrt
    \/ CleanupTempFiles
    \/ LoadSrt
    \/ AddSubtitlesToVideo
    \/ TranslateSrtParse
    \/ TranslateText
    \/ TranslateSrtWrite

Spec == Init /\ [][Next]_vars

----------------------------------------------------------------------------
(* Properties *)

RECURSIVE chunk_tokens(_)
chunk_tokens(segs) ==
    IF segs = <<>> THEN 0 ELSE encode_len(segs[1].text) + chunk_tokens(Tail(segs))

\* split_into_chunks has returned
Chunked == action = "generate" /\ pc \in {"process_chunks", "create_srt"}

\* C1: every chunk returned by split_into_chunks has a total token count of
\* at most MAX_TOKENS_PER_CHUNK, or holds exactly one segment.
C1_ChunkTokenBound ==
    Chunked =>
        \A k \in 1..Len(chunks) :
            \/ chunk_tokens(chunks[k].segments) <= MAX_TOKENS_PER_CHUNK
            \/ Len(chunks[k].segments) = 1

\* An oversized segment alone in its chunk, next to a chunk of several
\* segments that sealed because the following segment did not fit.
C1_Witness ==
    /\ Chunked
    /\ \E k \in 1..Len(chunks) :
          /\ Len(chunks[k].segments) = 1
          /\ chunk_tokens(chunks[k].segments) > MAX_TOKENS_PER_CHUNK
    /\ \E k \in 1..Len(chunks) :
          /\ Len(chunks[k].segments) >= 2
          /\ chunk_tokens(chunks[k].segments) > 3000

\* C2: the segments of the chunks, concatenated in chunk order by
\* process_chunks, are the input segments: none lost, moved or repeated.
C2_ChunkPartition ==
    (action = "generate" /\ pc = "create_srt") => results = transcription

C2_Witness ==
    /\ action = "generate"
    /\ pc = "create_srt"
    /\ Len(chunks) >= 2
    /\ Len(results) >= 3
    /\ results[1] # results[2]

\* C3 (as claimed): every chunk of the output holds at least one segment,
\* and an oversized segment is a chunk of exactly that segment.
C3_NoEmptyChunk ==
    Chunked =>
        /\ \A k \in 1..Len(chunks) : Len(chunks[k].segments) >= 1
        /\ \A i \in 1..Len(transcription) :
              encode_len(transcription[i].text) > MAX_TOKENS_PER_CHUNK =>
                  \E k \in 1..Len(chunks) : chunks[k].segments = <<transcription[i]>>

\* A time cut down, and a time rounded to the nearest, whole millisecond
TruncMs(t) == (t \div 1000) * 1000
RoundMs(t) == ((t + 500) \div 1000) * 1000

\* create_srt has written the subtitle file
SrtWritten == action = "generate" /\ output.state = "written"

\* A valid ordered sequence of subtitles: indices 1..n, ordered by start
\* (then end), 0 <= start < end, a content that is not blank.
ValidSubtitles(x) ==
    /\ \A i \in 1..Len(x) :
          /\ x[i].index = i
          /\ 0 <= x[i].start
          /\ x[i].start < x[i].end
          /\ ~is_blank(x[i].content)
    /\ \A i \in 1..(Len(x) - 1) :
          \/ x[i].start < x[i + 1].start
          \/ x[i].start = x[i + 1].start /\ x[i].end <= x[i + 1].end

\* decode(encode(x)) equals x entry by entry, the times of x taken through ms
RoundTrip(x, y, ms(_)) ==
    /\ Len(y) = Len(x)
    /\ \A i \in 1..Len(x) :
          /\ y[i].index = x[i].index
          /\ y[i].start = ms(x[i].start)
          /\ y[i].end = ms(x[i].end)
          /\ y[i].content = x[i].content

KeptSegments(res) ==
    {p \in 1..Len(res) :
        ~is_blank(res[p].text) /\ 0 <= res[p].start /\ res[p].start < res[p].end}

\* Segment q is written before segment p: earlier start, then earlier end,
\* then earlier position.
WrittenBefore(res, q, p) ==
    \/ res[q].start < res[p].start
    \/ res[q].start = res[p].start /\ res[q].end < res[p].end
    \/ res[q].start = res[p].start /\ res[q].end = res[p].end /\ q < p

PlaceInFile(res, p) ==
    1 + Cardinality({q \in KeptSegments(res) : WrittenBefore(res, q, p)})

\* C7 (as claimed): the file written by create_srt has one subtitle per
\* segment, numbered 1..n in the order of the segments, the i-th with the
\* i-th segment's start, end (in milliseconds) and text.
C7_OneSubtitlePerSegment ==
    SrtWritten =>
        LET y == parse(output.blocks)
        IN /\ Len(y) = Len(results)
           /\ \A i \in 1..Len(y) :
                 /\ y[i].index = i
                 /\ y[i].start = TruncMs(results[i].start)
                 /\ y[i].end = TruncMs(results[i].end)
                 /\ y[i].content = results[i].text

\* C7 (amended): the file written by create_srt has one subtitle for each
\* segment whose text is not blank and whose times satisfy
\* 0 <= start < end, and none for the others; the subtitles are numbered
\* 1..m without gaps, in the order of start (then end, then position in
\* the input), each with its segment's start and end cut down to whole
\* milliseconds and its segment's text.
C7_DenseIndicesOfKeptSegments ==
    SrtWritten =>
        LET y == parse(output.blocks)
            K == KeptSegments(results)
        IN /\ Len(y) = Cardinality(K)
           /\ \A k \in 1..Len(y) : y[k].index = k
           /\ \A p \in K :
                 LET k == PlaceInFile(results, p)
                 IN /\ k \in 1..Len(y)
                    /\ y[k].start = TruncMs(results[p].start)
                    /\ y[k].end = TruncMs(results[p].end)
                    /\ y[k].content = results[p].text

\* A file written from three segments given out of order, one of them
\* dropped.
C7_Witness ==
    /\ SrtWritten
    /\ Len(results) >= 3
    /\ Len(output.blocks) = 2
    /\ 1 \in KeptSegments(results)
    /\ 2 \notin KeptSegments(results)
    /\ 3 \in KeptSegments(results)
    /\ results[1].start > results[3].start

\* The times at which the timeline is asked for a frame: the start and the
\* end of every subtitle, and the microsecond before and after each.
QueryTimes ==
    {t \in UNION {{subtitles[i].start - 1, subtitles[i].start, subtitles[i].start + 1,
                   subtitles[i].end - 1, subtitles[i].end, subtitles[i].end + 1} :
                  i \in 1..Len(subtitles)} : t >= 0}

\* add_subtitles_to_video has composed the timeline
Composed == action = "add" /\ pc \in {"cleanup", "done"} /\ final_video # NoComposite

\* C5: in the timeline built by add_subtitles_to_video the raster of a
\* subtitle is present at time t if and only if start <= t < end.
C5_VisibilityInterval ==
    Composed =>
        \A i \in 1..Len(subtitles) : \A t \in QueryTimes :
            (i \in playing_clips(final_video, t))
                <=> (subtitles[i].start <= t /\ t < subtitles[i].end)

\* A timeline of two subtitles, the second starting when the first ends:
\* at that time only the second is present.
C5_Witness ==
    /\ Composed
    /\ Len(subtitles) = 2
    /\ subtitles[1].end = subtitles[2].start
    /\ playing_clips(final_video, subtitles[1].end) = {2}
    /\ playing_clips(final_video, subtitles[1].end - 1) = {1}

\* The output file is as it was before the operation
OutputUntouched == output \in OutputBefore

C8_TruncationNeverRaises ==
    (/\ action = "add"
     /\ pc \in {"cleanup", "done"}
     /\ input_srt.ok
     /\ max_char_count(video.w, DEFAULT_FONT_SIZE) >= 1) =>
        /\ exc # "ValueError"
        /\ Len(final_video.clips) = Len(subtitles)
        /\ \A i \in 1..Len(final_video.clips) :
              LET wrapped == wrapped_lines(subtitles[i].content,
                                           max_char_count(video.w, DEFAULT_FONT_SIZE))
                  drawn == final_video.clips[i].lines
              IN /\ Len(drawn) <= max_lines
                 /\ Len(drawn) <= Len(wrapped)
                 /\ (Len(wrapped) >= max_lines => Len(drawn) = max_lines)
                 /\ \A k \in 1..Len(drawn) : drawn[k] = wrapped[k]

\* C9 (as claimed): translate_srt calls translate_text once per subtitle,
\* in order, with its content, and the file it writes has as many
\* subtitles, in the same order, each with the index, start and end of
\* the input subtitle.
C9_TranslationKeepsFrame ==
    (action = "translate" /\ pc = "done" /\ output.state = "written") =>
        LET y == parse(output.blocks)
        IN /\ calls = [i \in 1..Len(subtitles) |-> subtitles[i].content]
           /\ Len(y) = Len(subtitles)
           /\ \A i \in 1..Len(y) :
                 /\ y[i].index = subtitles[i].index
                 /\ y[i].start = subtitles[i].start
                 /\ y[i].end = subtitles[i].end

\* C10 (as claimed): when SRTGenerator.run has finished, normally or by
\* an exception of any step, the temporary audio file does not exist.
C10_TempAudioRemoved ==
    (action = "generate" /\ pc = "done") => ~temp_audio_exists

====
